---- MODULE Spec2Model ----
\* A model of the WAVE codec of the pcm crate (src/src/lib.rs):
\* PCM::export_wave_file, PCM::export_raw_file, PCM::import_wave_file,
\* Sample::from_wave_format_bps and the per-variant tables.
\*
\* Numbers that the code holds in a u32 or a usize are kept as little-endian
\* sequences of bytes without trailing zeros ("wide" numbers), which is also
\* what the little-endian writes put on the wire; u16 and smaller values are
\* plain integers.
EXTENDS Integers, Sequences, FiniteSets, TLC

\* ------------------------------------------------------------------ bounds
\* Largest number of explicitly listed frames of a PCM handed to export.
MaxFrames == 2
\* Largest number of payload bytes that follow the header of a hand-made stream.
MaxPayload == 4

\* ------------------------------------------------------- wide numbers
Byte == 0..255

Min(a, b) == IF a < b THEN a ELSE b

\* Drops the most significant zero bytes.
RECURSIVE Norm(_)
Norm(s) ==
    IF s = <<>> THEN <<>>
    ELSE IF s[Len(s)] = 0 THEN Norm(SubSeq(s, 1, Len(s) - 1))
    ELSE s

\* The wide number of a plain integer (u32::from, usize::from, a literal).
RECURSIVE ToLE(_)
ToLE(n) == IF n = 0 THEN <<>> ELSE <<n % 256>> \o ToLE(n \div 256)

\* The plain integer of a wide number of at most three bytes.
RECURSIVE LEToNat(_)
LEToNat(s) == IF s = <<>> THEN 0 ELSE s[1] + 256 * LEToNat(Tail(s))

One == <<1>>

RECURSIVE AddCarry(_, _, _)
AddCarry(a, b, c) ==
    IF a = <<>> /\ b = <<>> THEN (IF c = 0 THEN <<>> ELSE <<c>>)
    ELSE LET x == IF a = <<>> THEN 0 ELSE a[1]
             y == IF b = <<>> THEN 0 ELSE b[1]
             t == x + y + c
         IN  <<t % 256>> \o AddCarry(IF a = <<>> THEN <<>> ELSE Tail(a),
                                     IF b = <<>> THEN <<>> ELSE Tail(b),
                                     t \div 256)

\* Exact sum of two wide numbers.
LEAdd(a, b) == Norm(AddCarry(a, b, 0))

RECURSIVE MulCarry(_, _, _)
MulCarry(a, k, c) ==
    IF a = <<>> THEN ToLE(c)
    ELSE LET t == a[1] * k + c
         IN  <<t % 256>> \o MulCarry(Tail(a), k, t \div 256)

\* Exact product of a wide number and a plain integer below 2^20.
LEMulNat(a, k) == Norm(MulCarry(a, k, 0))

\* The value fits a u32: at most four significant bytes.
FitsU32(a) == Len(a) <= 4

\* The low 32 bits of a wide number (`as u32`, and the result of a wrapping
\* u32 operation).
WrapU32(a) == Norm(SubSeq(a, 1, Min(4, Len(a))))

\* u32::max_value() as a wide number.
U32Max == <<255, 255, 255, 255>>

\* ------------------------------------------------------- Sample model
Unsigned8bits(v) == [tag |-> "Unsigned8bits", v |-> v]
Signed16bits(v) == [tag |-> "Signed16bits", v |-> v]
Signed24bits == [tag |-> "Signed24bits", v |-> 0]
Signed32bits(v) == [tag |-> "Signed32bits", v |-> v]
ImaADPCM == [tag |-> "ImaADPCM", v |-> 0]
MicrosoftADPCM == [tag |-> "MicrosoftADPCM", v |-> 0]
Float(v) == [tag |-> "Float", v |-> v]
DoubleFloat(v) == [tag |-> "DoubleFloat", v |-> v]

SampleTags ==
    {"Unsigned8bits", "Signed16bits", "Signed24bits", "Signed32bits",
     "ImaADPCM", "MicrosoftADPCM", "Float", "DoubleFloat"}

get_binary_size(s) ==
    CASE s.tag = "Unsigned8bits" -> 8
      [] s.tag = "Signed16bits" -> 16
      [] s.tag = "Signed24bits" -> 24
      [] s.tag = "Signed32bits" -> 32
      [] s.tag = "MicrosoftADPCM" -> 4
      [] s.tag = "Float" -> 32
      [] s.tag = "DoubleFloat" -> 64
      [] s.tag = "ImaADPCM" -> 4

\* get_best_wave_format with the Float variant mapped to integer PCM.
get_best_wave_format_FloatAsPcm(s) ==
    CASE s.tag = "Unsigned8bits" -> 1
      [] s.tag = "Signed16bits" -> 1
      [] s.tag = "Signed24bits" -> 1
      [] s.tag = "Signed32bits" -> 1
      [] s.tag = "MicrosoftADPCM" -> 2
      [] s.tag = "Float" -> 1
      [] s.tag = "DoubleFloat" -> 3
      [] s.tag = "ImaADPCM" -> 17

get_best_wave_format(s) ==
    CASE s.tag = "Unsigned8bits" -> 1
      [] s.tag = "Signed16bits" -> 1
      [] s.tag = "Signed24bits" -> 1
      [] s.tag = "Signed32bits" -> 1
      [] s.tag = "MicrosoftADPCM" -> 2
      [] s.tag = "Float" -> 3
      [] s.tag = "DoubleFloat" -> 3
      [] s.tag = "ImaADPCM" -> 17

get_wave_format_chunk_extra_size(s) ==
    CASE s.tag = "Unsigned8bits" -> 0
      [] s.tag = "Signed16bits" -> 0
      [] s.tag = "Signed24bits" -> 0
      [] s.tag = "Signed32bits" -> 0
      [] s.tag = "MicrosoftADPCM" -> 34
      [] s.tag = "Float" -> 0
      [] s.tag = "DoubleFloat" -> 0
      [] s.tag = "ImaADPCM" -> 4

\* ------------------------------------------------------- results
\* A Result<T> of the crate, or the abort of the call by a panic.  `arg` is
\* the payload of the error (a wide number), `at` the stream offset at which
\* the failing step started, `val` the Ok value as a sequence of length
\* zero or one.
Ok(v) == [status |-> "Ok", kind |-> "", arg |-> <<>>, at |-> 0, val |-> <<v>>]
Err(k, a, p) == [status |-> "Err", kind |-> k, arg |-> a, at |-> p, val |-> <<>>]
Panic(k, p) == [status |-> "Panic", kind |-> k, arg |-> <<>>, at |-> p, val |-> <<>>]
NotCalled == [status |-> "NotCalled", kind |-> "", arg |-> <<>>, at |-> 0, val |-> <<>>]

\* ------------------------------------------------------- Format resolver
\* from_wave_format_bps with the commented-out 24 bit arm enabled.
from_wave_format_bps_With24(format, bits_per_sample) ==
    CASE format = 1 ->
            (CASE bits_per_sample = 8 -> Ok(Unsigned8bits(0))
               [] bits_per_sample = 16 -> Ok(Signed16bits(0))
               [] bits_per_sample = 24 -> Ok(Signed24bits)
               [] bits_per_sample = 32 -> Ok(Signed32bits(0))
               [] OTHER -> Err("UnknownBitsPerSample", ToLE(bits_per_sample), 0))
      [] format = 2 -> Err("UnknownBitsPerSample", ToLE(bits_per_sample), 0)
      [] format = 3 ->
            (CASE bits_per_sample = 32 -> Ok(Float(0))
               [] bits_per_sample = 64 -> Ok(DoubleFloat(0))
               [] OTHER -> Err("UnknownBitsPerSample", ToLE(bits_per_sample), 0))
      [] format = 17 -> Err("UnknownBitsPerSample", ToLE(bits_per_sample), 0)
      [] OTHER -> Err("UnknownFormat", ToLE(format), 0)

from_wave_format_bps(format, bits_per_sample) ==
    CASE format = 1 ->
            (CASE bits_per_sample = 8 -> Ok(Unsigned8bits(0))
               [] bits_per_sample = 16 -> Ok(Signed16bits(0))
               [] bits_per_sample = 32 -> Ok(Signed32bits(0))
               [] OTHER -> Err("UnknownBitsPerSample", ToLE(bits_per_sample), 0))
      [] format = 2 -> Err("UnknownBitsPerSample", ToLE(bits_per_sample), 0)
      [] format = 3 ->
            (CASE bits_per_sample = 32 -> Ok(Float(0))
               [] bits_per_sample = 64 -> Ok(DoubleFloat(0))
               [] OTHER -> Err("UnknownBitsPerSample", ToLE(bits_per_sample), 0))
      [] format = 17 -> Err("UnknownBitsPerSample", ToLE(bits_per_sample), 0)
      [] OTHER -> Err("UnknownFormat", ToLE(format), 0)

\* ------------------------------------------------------- byte streams
\* The four-byte tags of the container.
TagRIFF == <<82, 73, 70, 70>>
TagWAVE == <<87, 65, 86, 69>>
TagFmt == <<102, 109, 116, 32>>
TagFact == <<102, 97, 99, 116>>
TagData == <<100, 97, 116, 97>>

\* write_le_to_u16 / read_le_to_u16 of ez_io.
write_le_to_u16(v) == <<v % 256, v \div 256>>
read_le_to_u16(b) == b[1] + 256 * b[2]

\* write_le_to_u32 / read_le_to_u32 of ez_io, on wide numbers.
write_le_to_u32(w) == w \o [i \in 1..(4 - Len(w)) |-> 0]
read_le_to_u32(b) == Norm(b)

\* write_le_to_i16 / read_le_to_i16 of ez_io: two's complement.
write_le_to_i16(v) == write_le_to_u16(IF v < 0 THEN v + 65536 ELSE v)
read_le_to_i16(b) ==
    LET u == read_le_to_u16(b) IN IF u >= 32768 THEN u - 65536 ELSE u

\* The bytes at offsets pos .. pos+n-1 of a stream.
Take(s, pos, n) == SubSeq(s, pos + 1, pos + n)
Has(s, pos, n) == pos + n <= Len(s)

\* A writer holds runs: `bytes` written `n` times over (n is a wide number).
\* Everything but the payload of a PCM of billions of equal frames, or of a
\* frame of tens of thousands of equal samples, is a run of n = 1.
Seg(b) == <<[n |-> One, bytes |-> b]>>

Explicit(w) == \A i \in 1..Len(w) : w[i].n = One

\* The bytes of a writer all of whose runs are written once.
RECURSIVE Flat(_)
Flat(w) == IF w = <<>> THEN <<>> ELSE w[1].bytes \o Flat(Tail(w))

\* ------------------------------------------------------- PCM
\* frames is a sequence of runs [n, samples, rep]: a frame whose Vec of samples
\* is `samples` rep times over, stored n times in a row.  n = 1 and rep = 1
\* for every frame that is listed sample by sample; rep > 1 stands for a frame
\* of tens of thousands of channels.
\* loop_info is <<>> for None and <<v>> for Some(v).
PCM(sample_rate, nb_channels, sample_type, loop_info, frames) ==
    [parameters |-> [sample_rate |-> sample_rate,
                     nb_channels |-> nb_channels,
                     sample_type |-> sample_type],
     loop_info |-> loop_info,
     frames |-> frames]

\* frames.len()
RECURSIVE frames_len(_)
frames_len(frames) ==
    IF frames = <<>> THEN <<>>
    ELSE LEAdd(frames[1].n, frames_len(Tail(frames)))

\* Frame::get_audio_size
Frame_get_audio_size(f) ==
    (Len(f.samples) * f.rep) * (IF f.samples = <<>> THEN 0
                                ELSE get_binary_size(f.samples[1]) \div 8)

\* PCM::get_audio_size (usize of 64 bits: the product is exact)
get_audio_size(self) ==
    LEMulNat(frames_len(self.frames),
             IF self.frames = <<>> THEN 0
             ELSE Frame_get_audio_size(self.frames[1]))

\* A u32 sum and a u32 product: the exact value wrapped, and whether it
\* overflowed.
AddU32(a, b) ==
    LET r == LEAdd(a, b) IN [ovf |-> ~FitsU32(r), val |-> WrapU32(r)]
MulU32(a, k) ==
    LET r == LEMulNat(a, k) IN [ovf |-> ~FitsU32(r), val |-> WrapU32(r)]

\* The samples of one frame as export_raw_file writes them, up to the first
\* sample it cannot write.
RECURSIVE encode_samples(_)
encode_samples(samples) ==
    IF samples = <<>> THEN [ok |-> TRUE, bytes |-> <<>>]
    ELSE LET s == samples[1]
             rest == encode_samples(Tail(samples))
         IN  CASE s.tag = "Unsigned8bits" ->
                    [ok |-> rest.ok, bytes |-> <<s.v>> \o rest.bytes]
               [] s.tag = "Signed16bits" ->
                    [ok |-> rest.ok, bytes |-> write_le_to_i16(s.v) \o rest.bytes]
               [] OTHER -> [ok |-> FALSE, bytes |-> <<>>]

\* export_raw_file over the frames that remain: the result and the runs written.
RECURSIVE export_raw_frames(_)
export_raw_frames(frames) ==
    IF frames = <<>> THEN [result |-> Ok(<<>>), out |-> <<>>]
    ELSE LET e == encode_samples(frames[1].samples)
             rest == export_raw_frames(Tail(frames))
         IN  IF ~e.ok
             THEN [result |-> Panic("unimplemented", 0), out |-> Seg(e.bytes)]
             ELSE [result |-> rest.result,
                   out |-> <<[n |-> LEMulNat(frames[1].n, frames[1].rep),
                            bytes |-> e.bytes]>> \o rest.out]

export_raw_file(self) == export_raw_frames(self.frames)

\* ------------------------------------------------------- Chunk writer
\* The header bytes of export_wave_file up to and including the sample rate.
header_to_sample_rate(self, riff_chunk_size_interior, format_chunk_size_interior) ==
    TagRIFF \o write_le_to_u32(riff_chunk_size_interior)
    \o TagWAVE \o TagFmt
    \o write_le_to_u32(ToLE(format_chunk_size_interior))
    \o write_le_to_u16(get_best_wave_format(self.parameters.sample_type))
    \o write_le_to_u16(self.parameters.nb_channels)
    \o write_le_to_u32(self.parameters.sample_rate)

\* PCM::export_wave_file on a fresh writer: the value returned (or the abort)
\* and what the writer holds then.  `checks` is the overflow-checks setting of
\* the build: an overflowing u32 or u16 operation panics when it is on and wraps
\* when it is off.
export_wave_file(self, checks) ==
    LET st == self.parameters.sample_type
        audio == get_audio_size(self)
        extra == get_wave_format_chunk_extra_size(st)
        format_chunk_size_interior == 16 + extra
        format_chunk_size_total == format_chunk_size_interior + 8
        best == get_best_wave_format(st)
        fact_chunk_size_interior == IF best = 1 THEN 0 ELSE 4
        fact_chunk_size_total == IF best = 1 THEN 0 ELSE 12
        data_chunk_size_interior == WrapU32(audio)
        data_chunk_size_total == AddU32(data_chunk_size_interior, ToLE(8))
        riff_chunk_size_interior ==
            AddU32(ToLE(format_chunk_size_total + fact_chunk_size_total),
                   data_chunk_size_total.val)
        bytes_per_sample == get_binary_size(st) \div 8
        rate_x_channels == MulU32(self.parameters.sample_rate, self.parameters.nb_channels)
        byte_rate == MulU32(rate_x_channels.val, bytes_per_sample)
        block_align == self.parameters.nb_channels * bytes_per_sample
        h1 == header_to_sample_rate(self, riff_chunk_size_interior.val,
                                    format_chunk_size_interior)
        h2 == h1 \o write_le_to_u32(byte_rate.val)
        h3 == h2 \o write_le_to_u16(block_align % 65536)
                 \o write_le_to_u16(get_binary_size(st))
        h4 == IF best # 1
              THEN h3 \o TagFact \o write_le_to_u32(ToLE(fact_chunk_size_interior))
              ELSE h3
        h5 == IF best # 1
              THEN h4 \o write_le_to_u32(WrapU32(frames_len(self.frames)))
              ELSE h4
        h6 == h5 \o TagData \o write_le_to_u32(data_chunk_size_interior)
        raw == export_raw_file(self)
    IN  IF ~FitsU32(audio)
        THEN [result |-> Err("TooMuchData", audio, 0), out |-> <<>>]
        ELSE IF extra # 0
        THEN [result |-> Panic("unimplemented", 0), out |-> <<>>]
        ELSE IF checks /\ (data_chunk_size_total.ovf \/ riff_chunk_size_interior.ovf)
        THEN [result |-> Panic("overflow", 0), out |-> <<>>]
        ELSE IF checks /\ (rate_x_channels.ovf \/ byte_rate.ovf)
        THEN [result |-> Panic("overflow", Len(h1)), out |-> Seg(h1)]
        ELSE IF checks /\ block_align > 65535
        THEN [result |-> Panic("overflow", Len(h2)), out |-> Seg(h2)]
        ELSE IF best # 1 /\ ~FitsU32(frames_len(self.frames))
        THEN [result |-> Err("TooManyFrames", frames_len(self.frames), Len(h4)),
              out |-> Seg(h4)]
        ELSE [result |-> raw.result, out |-> Seg(h6) \o raw.out]

\* ------------------------------------------------------- Chunk reader
\* check_magic_number that compares the first three bytes only.
check_magic_number_ThreeBytes(s, pos, magic) ==
    Has(s, pos, Len(magic)) /\ Take(s, pos, 3) = SubSeq(magic, 1, 3)

\* check_magic_number of the magic_number crate at offset pos: the next
\* Len(magic) bytes are there and equal magic.
check_magic_number(s, pos, magic) ==
    Has(s, pos, Len(magic)) /\ Take(s, pos, Len(magic)) = magic

\* One sample read from the buffer at the cursor, for the resolved variant:
\* [status, sample, next cursor].
decode_sample(data, cursor, sample_type) ==
    CASE sample_type.tag = "Unsigned8bits" ->
            IF Has(data, cursor, 1)
            THEN [status |-> "Ok", sample |-> Unsigned8bits(data[cursor + 1]),
                  cursor |-> cursor + 1]
            ELSE [status |-> "Eof", sample |-> sample_type, cursor |-> cursor]
      [] sample_type.tag = "Signed16bits" ->
            IF Has(data, cursor, 2)
            THEN [status |-> "Ok",
                  sample |-> Signed16bits(read_le_to_i16(Take(data, cursor, 2))),
                  cursor |-> cursor + 2]
            ELSE [status |-> "Eof", sample |-> sample_type, cursor |-> cursor]
      [] OTHER -> [status |-> "Unimplemented", sample |-> sample_type, cursor |-> cursor]

\* The inner loop `for _ in 0..nb_channels` with `left` iterations to go.
RECURSIVE decode_frame(_, _, _, _, _)
decode_frame(data, cursor, sample_type, left, samples) ==
    IF left = 0 THEN [status |-> "Ok", samples |-> samples, cursor |-> cursor]
    ELSE LET d == decode_sample(data, cursor, sample_type)
         IN  IF d.status # "Ok"
             THEN [status |-> d.status, samples |-> samples, cursor |-> cursor]
             ELSE decode_frame(data, d.cursor, sample_type, left - 1,
                               Append(samples, d.sample))

\* decode_frames that stops, without an error, once less than a whole frame
\* is left in the buffer.
RECURSIVE decode_frames_WholeOnly(_, _, _, _, _)
decode_frames_WholeOnly(data, cursor, sample_type, nb_channels, frames) ==
    IF ~Has(data, cursor, nb_channels * (get_binary_size(sample_type) \div 8))
       \/ ~(cursor < Len(data))
    THEN [status |-> "Ok", frames |-> frames, cursor |-> cursor]
    ELSE LET f == decode_frame(data, cursor, sample_type, nb_channels, <<>>)
         IN  IF f.status # "Ok"
             THEN [status |-> f.status, frames |-> frames, cursor |-> f.cursor]
             ELSE decode_frames_WholeOnly(data, f.cursor, sample_type, nb_channels,
                                          Append(frames, [n |-> One, samples |-> f.samples, rep |-> 1]))

\* The loop `while pcm_raw.seek(Current(0)) < data_end`, data_end = Len(data).
RECURSIVE decode_frames(_, _, _, _, _)
decode_frames(data, cursor, sample_type, nb_channels, frames) ==
    IF ~(cursor < Len(data)) THEN [status |-> "Ok", frames |-> frames, cursor |-> cursor]
    ELSE LET f == decode_frame(data, cursor, sample_type, nb_channels, <<>>)
         IN  IF f.status # "Ok"
             THEN [status |-> f.status, frames |-> frames, cursor |-> f.cursor]
             ELSE decode_frames(data, f.cursor, sample_type, nb_channels,
                                Append(frames, [n |-> One, samples |-> f.samples, rep |-> 1]))

\* import_wave_file up to the loop, without the division of the capacity
\* of `frames` (lines 110 to 112).
import_header_NoCapacity(s) ==
    LET audio_format == read_le_to_u16(Take(s, 20, 2))
        nb_channels == read_le_to_u16(Take(s, 22, 2))
        sample_rate == read_le_to_u32(Take(s, 24, 4))
        bits_per_sample == read_le_to_u16(Take(s, 34, 2))
        sample_type == from_wave_format_bps(audio_format, bits_per_sample)
        sub_chunk_2_size == read_le_to_u32(Take(s, 40, 4))
        data == Take(s, 44, LEToNat(sub_chunk_2_size))
    IN  IF ~check_magic_number(s, 0, TagRIFF) THEN Err("WrongMagicNumber", <<>>, 0)
        ELSE IF ~Has(s, 4, 4) THEN Err("IoError", <<>>, 4)
        ELSE IF ~check_magic_number(s, 8, TagWAVE) THEN Err("WrongMagicNumber", <<>>, 8)
        ELSE IF ~check_magic_number(s, 12, TagFmt) THEN Err("WrongMagicNumber", <<>>, 12)
        ELSE IF ~Has(s, 16, 4) THEN Err("IoError", <<>>, 16)
        ELSE IF ~Has(s, 20, 2) THEN Err("IoError", <<>>, 20)
        ELSE IF audio_format # 1 THEN Panic("unimplemented", 22)
        ELSE IF ~Has(s, 22, 2) THEN Err("IoError", <<>>, 22)
        ELSE IF ~Has(s, 24, 4) THEN Err("IoError", <<>>, 24)
        ELSE IF ~Has(s, 28, 4) THEN Err("IoError", <<>>, 28)
        ELSE IF ~Has(s, 32, 2) THEN Err("IoError", <<>>, 32)
        ELSE IF ~Has(s, 34, 2) THEN Err("IoError", <<>>, 34)
        ELSE IF sample_type.status # "Ok"
        THEN Err(sample_type.kind, sample_type.arg, 36)
        ELSE IF ~check_magic_number(s, 36, TagData) THEN Err("WrongMagicNumber", <<>>, 36)
        ELSE IF ~Has(s, 40, 4) THEN Err("IoError", <<>>, 40)
        ELSE IF Len(sub_chunk_2_size) > 3 \/ ~Has(s, 44, LEToNat(sub_chunk_2_size))
        THEN Err("IoError", <<>>, 44)
        ELSE Ok([parameters |-> [sample_rate |-> sample_rate,
                                 nb_channels |-> nb_channels,
                                 sample_type |-> sample_type.val[1]],
                 data |-> data])

\* PCM::import_wave_file on the stream s from offset 0 up to the loop (lines
\* 85 to 113): the failure that ends the call there, or Ok of the parameters
\* and of the buffer `data` the loop reads.
import_header(s) ==
    LET audio_format == read_le_to_u16(Take(s, 20, 2))
        nb_channels == read_le_to_u16(Take(s, 22, 2))
        sample_rate == read_le_to_u32(Take(s, 24, 4))
        bits_per_sample == read_le_to_u16(Take(s, 34, 2))
        sample_type == from_wave_format_bps(audio_format, bits_per_sample)
        sub_chunk_2_size == read_le_to_u32(Take(s, 40, 4))
        data == Take(s, 44, LEToNat(sub_chunk_2_size))
    IN  IF ~check_magic_number(s, 0, TagRIFF) THEN Err("WrongMagicNumber", <<>>, 0)
        ELSE IF ~Has(s, 4, 4) THEN Err("IoError", <<>>, 4)
        ELSE IF ~check_magic_number(s, 8, TagWAVE) THEN Err("WrongMagicNumber", <<>>, 8)
        ELSE IF ~check_magic_number(s, 12, TagFmt) THEN Err("WrongMagicNumber", <<>>, 12)
        ELSE IF ~Has(s, 16, 4) THEN Err("IoError", <<>>, 16)
        ELSE IF ~Has(s, 20, 2) THEN Err("IoError", <<>>, 20)
        ELSE IF audio_format # 1 THEN Panic("unimplemented", 22)
        ELSE IF ~Has(s, 22, 2) THEN Err("IoError", <<>>, 22)
        ELSE IF ~Has(s, 24, 4) THEN Err("IoError", <<>>, 24)
        ELSE IF ~Has(s, 28, 4) THEN Err("IoError", <<>>, 28)
        ELSE IF ~Has(s, 32, 2) THEN Err("IoError", <<>>, 32)
        ELSE IF ~Has(s, 34, 2) THEN Err("IoError", <<>>, 34)
        ELSE IF sample_type.status # "Ok"
        THEN Err(sample_type.kind, sample_type.arg, 36)
        ELSE IF ~check_magic_number(s, 36, TagData) THEN Err("WrongMagicNumber", <<>>, 36)
        ELSE IF ~Has(s, 40, 4) THEN Err("IoError", <<>>, 40)
        ELSE IF Len(sub_chunk_2_size) > 3 \/ ~Has(s, 44, LEToNat(sub_chunk_2_size))
        THEN Err("IoError", <<>>, 44)
        ELSE IF nb_channels = 0 THEN Panic("divide by zero", 44 + Len(data))
        ELSE Ok([parameters |-> [sample_rate |-> sample_rate,
                                 nb_channels |-> nb_channels,
                                 sample_type |-> sample_type.val[1]],
                 data |-> data])

\* What import_wave_file returns when the cursor is at the end of the
\* buffer (lines 129 to 133).
import_return(parameters, frames) ==
    Ok(PCM(parameters.sample_rate, parameters.nb_channels, parameters.sample_type,
           <<>>, frames))

\* What ends import_wave_file inside the loop when a sample cannot be read:
\* the `?` of a short read, or unimplemented!().
import_failure(status, cursor) ==
    IF status = "Eof" THEN Err("IoError", <<>>, 44 + cursor)
    ELSE Panic("unimplemented", 44 + cursor)

\* PCM::import_wave_file on the stream s, read from offset 0.
import_wave_file(s) ==
    LET h == import_header(s)
        parameters == h.val[1].parameters
        d == decode_frames(h.val[1].data, 0, parameters.sample_type,
                           parameters.nb_channels, <<>>)
    IN  IF h.status # "Ok" THEN h
        ELSE IF d.status # "Ok" THEN import_failure(d.status, d.cursor)
        ELSE import_return(parameters, d.frames)

\* ------------------------------------------------------- inputs
\* The sample of a variant with the payload v (0 for the variants that the
\* codec cannot carry).
SampleOf(tag, v) ==
    CASE tag = "Unsigned8bits" -> Unsigned8bits(v)
      [] tag = "Signed16bits" -> Signed16bits(v)
      [] tag = "Signed24bits" -> Signed24bits
      [] tag = "Signed32bits" -> Signed32bits(v)
      [] tag = "ImaADPCM" -> ImaADPCM
      [] tag = "MicrosoftADPCM" -> MicrosoftADPCM
      [] tag = "Float" -> Float(v)
      [] tag = "DoubleFloat" -> DoubleFloat(v)

SamplesOf(tag) ==
    CASE tag = "Unsigned8bits" -> {Unsigned8bits(0), Unsigned8bits(200)}
      [] tag = "Signed16bits" -> {Signed16bits(-2), Signed16bits(300)}
      [] OTHER -> {SampleOf(tag, 0)}

\* Sample rates: ordinary ones, and the largest u32 values.
SampleRates == {ToLE(1), ToLE(8000), ToLE(44100), <<0, 0, 0, 128>>, U32Max}

LoopInfos == {<<>>, << <<[loop_start |-> <<>>, loop_end |-> One]>> >>}

\* k explicit frames of ch samples of one variant each.
FramesOf(tag, ch, k) ==
    {[i \in 1..k |-> [n |-> One, samples |-> f[i], rep |-> 1]] :
        f \in [1..k -> [1..ch -> SamplesOf(tag)]]}

\* PCMs that satisfy the data model: every frame has nb_channels samples of
\* the variant of parameters.sample_type.
SmallPCMs ==
    UNION {UNION {UNION {
        {PCM(r, ch, SampleOf(tag, 0), <<>>, fr) : fr \in FramesOf(tag, ch, k)}
        : k \in 0..MaxFrames} : ch \in 1..2} :
        tag \in SampleTags, r \in SampleRates}

\* The PCM of the documented scenario: mono, 8000 Hz, frames [10], [20], [30].
ScenarioPCM ==
    PCM(ToLE(8000), 1, Unsigned8bits(0), <<>>,
        [i \in 1..3 |-> [n |-> One, samples |-> <<Unsigned8bits(10 * i)>>, rep |-> 1]])

\* PCMs without frames, with the channel counts at the ends of the u16 range,
\* and with loop points.
EmptyPCMs ==
    {PCM(r, ch, SampleOf(tag, 0), li, <<>>) :
        r \in SampleRates, ch \in {0, 1, 40000, 65535},
        tag \in SampleTags, li \in LoopInfos}

\* PCMs whose frames do not follow parameters (the fields are public): frames
\* without samples, and frames of another variant than parameters.sample_type.
LoosePCMs ==
    {PCM(ToLE(8000), 1, SampleOf(tag, 0), <<>>,
         [i \in 1..k |-> [n |-> One, samples |-> <<>>, rep |-> 1]]) :
        tag \in SampleTags, k \in 1..MaxFrames}
    \cup {PCM(ToLE(8000), 1, SampleOf(tag, 0), <<>>,
              <<[n |-> One, samples |-> <<Unsigned8bits(200)>>, rep |-> 1]>>) :
            tag \in SampleTags}

\* Frame counts near and above 2^32.
BigCounts ==
    {<<216, 255, 255, 255>>, <<236, 255, 255, 255>>, <<248, 255, 255, 255>>,
     U32Max, <<0, 0, 0, 0, 1>>, <<0, 0, 0, 128>>}

\* PCMs of billions of equal frames.
BigPCMs ==
    {PCM(ToLE(8000), 1, SampleOf(tag, 0), <<>>, <<[n |-> c, samples |-> f, rep |-> 1]>>) :
        tag \in {"Unsigned8bits", "Float"}, c \in BigCounts,
        f \in {<<>>, <<Unsigned8bits(0)>>}}
    \cup {PCM(ToLE(8000), 2, Signed16bits(0), <<>>,
              <<[n |-> c, samples |-> <<Signed16bits(-2), Signed16bits(300)>>,
                rep |-> 1]>>) :
            c \in BigCounts}

\* PCMs of one frame of tens of thousands of channels.
WidePCMs ==
    {PCM(r, ch, SampleOf(tag, 0), <<>>,
         <<[n |-> One, samples |-> <<SampleOf(tag, 200)>>, rep |-> ch]>>) :
        r \in {ToLE(1), ToLE(8000)}, ch \in {32767, 32768, 65535},
        tag \in {"Unsigned8bits", "Signed16bits"}}

PCMs ==
    SmallPCMs \cup {ScenarioPCM} \cup EmptyPCMs \cup LoosePCMs \cup BigPCMs
    \cup WidePCMs

\* Header values of hand-made streams.
FormatCodes == {0, 1, 2, 3, 17, 65535}
BitWidths == {0, 4, 8, 16, 24, 32, 64}
ChannelCounts == {0, 1, 2}
StreamRates == {ToLE(8000), U32Max}
DataSizes == {ToLE(n) : n \in 0..(MaxPayload + 1)} \cup {U32Max}

\* n payload bytes.
PayloadOf(n) == [i \in 1..n |-> (i * 77 + 128) % 256]

\* A stream with the four tags in place and the given header fields; the
\* fields import discards (RIFF size, fmt size, byte rate, block align) are
\* as a writer would set them for integer PCM.
MakeStream(format, nb_channels, sample_rate, bits, data_size, payload) ==
    TagRIFF \o write_le_to_u32(WrapU32(LEAdd(ToLE(36), data_size)))
    \o TagWAVE \o TagFmt \o write_le_to_u32(ToLE(16))
    \o write_le_to_u16(format) \o write_le_to_u16(nb_channels)
    \o write_le_to_u32(sample_rate)
    \o write_le_to_u32(WrapU32(LEMulNat(sample_rate, nb_channels * (bits \div 8))))
    \o write_le_to_u16((nb_channels * (bits \div 8)) % 65536)
    \o write_le_to_u16(bits)
    \o TagData \o write_le_to_u32(data_size) \o payload

Streams ==
    {MakeStream(f, ch, r, b, ds, PayloadOf(n)) :
        f \in FormatCodes, ch \in ChannelCounts, r \in StreamRates,
        b \in BitWidths, ds \in DataSizes, n \in 0..MaxPayload}

\* Bytes a corrupted tag byte may take.
CorruptBytes == {0, 32, 97, 255}
TagOffsets == {0, 8, 12, 36}

\* ------------------------------------------------------- state
VARIABLES
    overflow_checks,  \* the build panics on integer overflow (else it wraps)
    pc,               \* what the caller has done so far
    pcm,              \* the PCM handed to export: <<>> or <<pcm>>
    writer,           \* the runs written by export
    export_result,    \* what export_wave_file returned
    reader,           \* the stream handed to import
    corrupted,        \* offset of the tag changed in reader, or -1
    import_result,    \* what import_wave_file returned
    resolved,         \* the resolver's input and result
    importing         \* an import_wave_file call followed step by step

vars == <<overflow_checks, pc, pcm, writer, export_result, reader, corrupted,
          import_result, resolved, importing>>

\* No import_wave_file call is followed step by step.
NotImporting == [at |-> "idle", parameters |-> <<>>, data |-> <<>>, cursor |-> 0,
                 frames |-> <<>>]

NoResolve == [format |-> 0, bits |-> 0, result |-> NotCalled]

Init ==
    /\ overflow_checks \in BOOLEAN
    /\ writer = <<>>
    /\ export_result = NotCalled
    /\ import_result = NotCalled
    /\ corrupted = -1
    /\ importing = NotImporting
    /\ \/ /\ pc = "pcm"
          /\ pcm \in {<<p>> : p \in PCMs}
          /\ reader = <<>>
          /\ resolved = NoResolve
       \/ /\ pc = "stream"
          /\ pcm = <<>>
          /\ reader \in Streams
          /\ resolved = NoResolve
       \/ /\ pc = "resolver"
          /\ pcm = <<>>
          /\ reader = <<>>
          /\ resolved \in [format : FormatCodes \cup {16, 18}, bits : BitWidths \cup {65535},
                           result : {NotCalled}]

\* pcm.export_wave_file(&mut writer) on a fresh writer.
ExportWave ==
    /\ pc = "pcm"
    /\ LET e == export_wave_file(pcm[1], overflow_checks)
       IN  /\ writer' = e.out
           /\ export_result' = e.result
    /\ pc' = "exported"
    /\ UNCHANGED <<overflow_checks, pcm, reader, corrupted, import_result, resolved,
                   importing>>

\* PCM::import_wave_file on the bytes the export wrote.
ImportExported ==
    /\ pc = "exported"
    /\ export_result.status = "Ok"
    /\ Explicit(writer)
    /\ reader' = Flat(writer)
    /\ import_result' = import_wave_file(Flat(writer))
    /\ pc' = "reimported"
    /\ UNCHANGED <<overflow_checks, pcm, writer, export_result, corrupted, resolved,
                   importing>>

\* PCM::import_wave_file on the bytes the export wrote, with one byte of one
\* of the four tags changed.
ImportCorrupted ==
    /\ pc = "exported"
    /\ export_result.status = "Ok"
    /\ Explicit(writer)
    /\ \E off \in TagOffsets, i \in 1..4, b \in CorruptBytes :
        LET s == Flat(writer)
        IN  /\ s[off + i] # b
            /\ reader' = [s EXCEPT ![off + i] = b]
            /\ corrupted' = off
            /\ import_result' = import_wave_file([s EXCEPT ![off + i] = b])
    /\ pc' = "corrupt_imported"
    /\ UNCHANGED <<overflow_checks, pcm, writer, export_result, resolved, importing>>

\* PCM::import_wave_file on a hand-made stream.
ImportWave ==
    /\ pc = "stream"
    /\ import_result' = import_wave_file(reader)
    /\ pc' = "imported"
    /\ UNCHANGED <<overflow_checks, pcm, writer, export_result, reader, corrupted,
                   resolved, importing>>

\* export_wave_file of the PCM an import returned (tests::read_and_write).
ExportImported ==
    /\ pc = "imported"
    /\ import_result.status = "Ok"
    /\ pcm' = import_result.val
    /\ LET e == export_wave_file(import_result.val[1], overflow_checks)
       IN  /\ writer' = e.out
           /\ export_result' = e.result
    /\ pc' = "reexported"
    /\ UNCHANGED <<overflow_checks, reader, corrupted, import_result, resolved,
                   importing>>

\* Sample::from_wave_format_bps(&format, &bits_per_sample).
Resolve ==
    /\ pc = "resolver"
    /\ resolved' = [resolved EXCEPT
                      !.result = from_wave_format_bps(resolved.format, resolved.bits)]
    /\ pc' = "resolved"
    /\ UNCHANGED <<overflow_checks, pcm, writer, export_result, reader, corrupted,
                   import_result, importing>>

Next ==
    \/ ExportWave
    \/ ImportExported
    \/ ImportCorrupted
    \/ ImportWave
    \/ ExportImported
    \/ Resolve

Spec == Init /\ [][Next]_vars

\* Exports, and imports of what was exported, of the PCMs whose frames are
\* all listed sample by sample (no PCM of billions of frames or of tens of
\* thousands of channels), in either build.
InitListed ==
    /\ Init
    /\ pc = "pcm"
    /\ pcm[1] \notin BigPCMs \cup WidePCMs

NextListed ==
    \/ ExportWave
    \/ ImportExported
    \/ ImportCorrupted

SpecListed == InitListed /\ [][NextListed]_vars

\* ------------------------------------------------------- import, step by step
\* One call of import_wave_file on a hand-made stream, one action for the
\* part before the loop, one for each iteration of the `while` loop and one
\* for the return. The call runs alone on its thread and none of its steps
\* waits for anything, so a step that can be taken is taken (weak fairness).

\* Lines 85 to 113: the header is read and the buffer filled, or the call ends.
ImportHeader ==
    /\ pc = "stream"
    /\ importing.at = "idle"
    /\ LET h == import_header(reader)
       IN  IF h.status # "Ok"
           THEN /\ importing' = [importing EXCEPT !.at = "done"]
                /\ import_result' = h
                /\ pc' = "imported"
           ELSE /\ importing' = [at |-> "loop", parameters |-> h.val[1].parameters,
                                 data |-> h.val[1].data, cursor |-> 0,
                                 frames |-> <<>>]
                /\ UNCHANGED <<import_result, pc>>
    /\ UNCHANGED <<overflow_checks, pcm, writer, export_result, reader, corrupted,
                   resolved>>

\* Lines 114 to 128, one iteration: the cursor is before data_end, and a
\* frame of nb_channels samples is read and pushed, or the call ends.
ImportFrame ==
    /\ importing.at = "loop"
    /\ importing.cursor < Len(importing.data)
    /\ LET f == decode_frame(importing.data, importing.cursor,
                             importing.parameters.sample_type,
                             importing.parameters.nb_channels, <<>>)
       IN  IF f.status # "Ok"
           THEN /\ importing' = [importing EXCEPT !.at = "done", !.cursor = f.cursor]
                /\ import_result' = import_failure(f.status, f.cursor)
                /\ pc' = "imported"
           ELSE /\ importing' = [importing EXCEPT
                                   !.cursor = f.cursor,
                                   !.frames = Append(@, [n |-> One,
                                                         samples |-> f.samples,
                                                         rep |-> 1])]
                /\ UNCHANGED <<import_result, pc>>
    /\ UNCHANGED <<overflow_checks, pcm, writer, export_result, reader, corrupted,
                   resolved>>

\* Lines 114 and 129 to 133: the cursor is at data_end, the PCM is returned.
ImportReturn ==
    /\ importing.at = "loop"
    /\ ~(importing.cursor < Len(importing.data))
    /\ importing' = [importing EXCEPT !.at = "done"]
    /\ import_result' = import_return(importing.parameters, importing.frames)
    /\ pc' = "imported"
    /\ UNCHANGED <<overflow_checks, pcm, writer, export_result, reader, corrupted,
                   resolved>>

InitSteps ==
    /\ Init
    /\ pc = "stream"

NextSteps ==
    \/ ImportHeader
    \/ ImportFrame
    \/ ImportReturn

SpecSteps == InitSteps /\ [][NextSteps]_vars /\ WF_vars(NextSteps)

\* ------------------------------------------------------- helpers of the claims
\* The PCM satisfies the data model with samples that are all Unsigned8bits
\* or all Signed16bits, and at least one channel.
RoundTripDomain(p) ==
    /\ p.parameters.sample_type.tag \in {"Unsigned8bits", "Signed16bits"}
    /\ p.parameters.nb_channels >= 1
    /\ \A i \in 1..Len(p.frames) :
        /\ Len(p.frames[i].samples) * p.frames[i].rep = p.parameters.nb_channels
        /\ \A j \in 1..Len(p.frames[i].samples) :
            p.frames[i].samples[j].tag = p.parameters.sample_type.tag

\* The header run of the writer (the first run written).
HeaderOf(w) == IF w = <<>> THEN <<>> ELSE w[1].bytes

Exported == pc \in {"exported", "reexported"}

\* The header fields of the hand-made stream in reader.
ReaderFormat == read_le_to_u16(Take(reader, 20, 2))
ReaderChannels == read_le_to_u16(Take(reader, 22, 2))
ReaderBits == read_le_to_u16(Take(reader, 34, 2))
ReaderDataSize == read_le_to_u32(Take(reader, 40, 4))

\* ------------------------------------------------------- C1
\* Checked under SpecListed.
\* C1 (as stated): for every PCM of the round-trip domain (all samples
\* Unsigned8bits or all Signed16bits, any u32 sample rate, at least one
\* channel, any number of frames), export returns Ok and the import of the
\* written bytes returns Ok with the same sample rate, channel count, variant
\* and frames, and loop_info = None.
C1_RoundTrip ==
    (pc \in {"exported", "reimported"} /\ RoundTripDomain(pcm[1])) =>
        /\ export_result.status = "Ok"
        /\ pc = "reimported" =>
            /\ import_result.status = "Ok"
            /\ import_result.val[1].parameters.sample_rate = pcm[1].parameters.sample_rate
            /\ import_result.val[1].parameters.nb_channels = pcm[1].parameters.nb_channels
            /\ import_result.val[1].parameters.sample_type.tag =
                   pcm[1].parameters.sample_type.tag
            /\ import_result.val[1].frames = pcm[1].frames
            /\ import_result.val[1].loop_info = <<>>

\* ------------------------------------------------------- C2
\* What the claim lists for a (format code, bit width) pair.
ResolverTable(format, bits) ==
    IF format = 1 /\ bits = 8 THEN Ok(Unsigned8bits(0))
    ELSE IF format = 1 /\ bits = 16 THEN Ok(Signed16bits(0))
    ELSE IF format = 1 /\ bits = 32 THEN Ok(Signed32bits(0))
    ELSE IF format = 3 /\ bits = 32 THEN Ok(Float(0))
    ELSE IF format = 3 /\ bits = 64 THEN Ok(DoubleFloat(0))
    ELSE IF format \in {1, 2, 3, 17} THEN Err("UnknownBitsPerSample", ToLE(bits), 0)
    ELSE Err("UnknownFormat", ToLE(format), 0)

\* C2: the resolver returns (never aborts) and its result is the listed
\* variant for the five supported pairs, UnknownBitsPerSample(bits) for every
\* other bit width under the format codes 1, 2, 3 and 17, and
\* UnknownFormat(code) for every other format code.
C2_ResolverTotal ==
    pc = "resolved" =>
        /\ resolved.result.status \in {"Ok", "Err"}
        /\ resolved.result = ResolverTable(resolved.format, resolved.bits)

C2_Witness ==
    /\ pc = "resolved"
    /\ resolved.format = 1
    /\ resolved.bits = 24
    /\ resolved.result.kind = "UnknownBitsPerSample"
    /\ resolved.result.arg = <<24>>

\* ------------------------------------------------------- C3
\* C3 (as stated): on a stream whose RIFF, WAVE and fmt tags are valid,
\* import returns Err(UnknownFormat(code)) for a format code outside
\* {1, 2, 3, 17}, Err(UnknownBitsPerSample(bits)) for a known format code
\* with a bit width outside the resolver's table, and gets to the data tag
\* check for (3, 32) and (3, 64).
C3_ResolverErrorsPropagate ==
    pc = "imported" =>
        /\ ReaderFormat \notin {1, 2, 3, 17} =>
            /\ import_result.status = "Err"
            /\ import_result.kind = "UnknownFormat"
            /\ import_result.arg = ToLE(ReaderFormat)
        /\ (/\ ReaderFormat \in {1, 2, 3, 17}
            /\ ResolverTable(ReaderFormat, ReaderBits).status = "Err") =>
            /\ import_result.status = "Err"
            /\ import_result.kind = "UnknownBitsPerSample"
            /\ import_result.arg = ToLE(ReaderBits)
        /\ (ReaderFormat = 3 /\ ReaderBits \in {32, 64}) =>
            (import_result.status = "Ok" \/ import_result.at >= 36)

\* ------------------------------------------------------- C4
\* C4: when the bytes that export wrote are a stream that import accepts,
\* changing one byte of one of the four tags (at 0, 8, 12 or 36) makes import
\* return the magic-number error, raised at that tag.
C4_MagicNumberFailure ==
    (pc = "corrupt_imported" /\ import_wave_file(Flat(writer)).status = "Ok") =>
        /\ import_result.status = "Err"
        /\ import_result.kind = "WrongMagicNumber"
        /\ import_result.at = corrupted

C4_Witness ==
    /\ pc = "corrupt_imported"
    /\ import_wave_file(Flat(writer)).status = "Ok"
    /\ corrupted = 36
    /\ reader[40] = 0
    /\ Len(pcm[1].frames) = 2
    /\ import_result.kind = "WrongMagicNumber"

\* ------------------------------------------------------- C5
\* C5 (as stated): in every header that export writes, the byte-rate field is
\* sample_rate x nb_channels x (bits_per_sample / 8) and the block-align
\* field is nb_channels x (bits_per_sample / 8), as exact products.
C5_SizeArithmetic ==
    Exported =>
        LET h == HeaderOf(writer)
            p == pcm[1].parameters
            bytes_per_sample == get_binary_size(p.sample_type) \div 8
        IN  /\ Len(h) >= 32 =>
                read_le_to_u32(Take(h, 28, 4)) =
                    LEMulNat(LEMulNat(p.sample_rate, p.nb_channels), bytes_per_sample)
            /\ Len(h) >= 34 =>
                read_le_to_u16(Take(h, 32, 2)) = p.nb_channels * bytes_per_sample

\* ------------------------------------------------------- C6
\* C6 (as stated): whenever export gets past the TooMuchData check and the
\* ADPCM check, the RIFF size field it writes is exactly 36 + data_size for
\* format code 1 and 36 + 12 + data_size otherwise, without wrap-around.
C6_RiffSize ==
    (Exported /\ Len(HeaderOf(writer)) >= 8) =>
        read_le_to_u32(Take(HeaderOf(writer), 4, 4)) =
            LEAdd(ToLE(IF pcm[1].parameters.sample_type.tag
                             \in {"Float", "DoubleFloat"} THEN 48 ELSE 36),
                  get_audio_size(pcm[1]))

\* ------------------------------------------------------- C7
ScenarioBytes ==
    <<82, 73, 70, 70,  39, 0, 0, 0,  87, 65, 86, 69,
      102, 109, 116, 32,  16, 0, 0, 0,  1, 0,  1, 0,
      64, 31, 0, 0,  64, 31, 0, 0,  1, 0,  8, 0,
      100, 97, 116, 97,  3, 0, 0, 0,  10, 20, 30>>

\* C7: the export of the mono, 8000 Hz, Unsigned8bits PCM of the frames
\* [10], [20], [30] writes the 44 + 3 bytes RIFF, 39, WAVE, 'fmt ', 16, 1, 1,
\* 8000, 8000, 1, 8, data, 3, 10, 20, 30 (a 44-byte header, no fact chunk),
\* and the import of those bytes returns the three frames.
C7_Scenario ==
    (pc \in {"exported", "reimported"} /\ pcm[1] = ScenarioPCM) =>
        /\ export_result.status = "Ok"
        /\ Explicit(writer)
        /\ Flat(writer) = ScenarioBytes
        /\ pc = "reimported" =>
            /\ import_result.status = "Ok"
            /\ import_result.val[1].frames =
                   <<[n |-> One, samples |-> <<Unsigned8bits(10)>>, rep |-> 1],
                     [n |-> One, samples |-> <<Unsigned8bits(20)>>, rep |-> 1],
                     [n |-> One, samples |-> <<Unsigned8bits(30)>>, rep |-> 1]>>

\* ------------------------------------------------------- C8
\* C8 (as stated): the export of a PCM that import returned returns Ok.
C8_ImportThenExport ==
    pc = "reexported" => export_result.status = "Ok"

\* ------------------------------------------------------- C9
\* C9: in the bytes of a successful export, a fact chunk ('fact', 4, number of
\* frames) sits at offset 36, before the data tag, exactly when the variant is
\* one whose format code is not 1 (Float, DoubleFloat); otherwise the data tag
\* is at offset 36.
C9_FactChunk ==
    (Exported /\ export_result.status = "Ok") =>
        LET h == HeaderOf(writer)
        IN  IF pcm[1].parameters.sample_type.tag
                 \in {"Float", "DoubleFloat", "ImaADPCM", "MicrosoftADPCM"}
            THEN /\ Take(h, 36, 4) = TagFact
                 /\ Take(h, 40, 4) = <<4, 0, 0, 0>>
                 /\ read_le_to_u32(Take(h, 44, 4)) = frames_len(pcm[1].frames)
                 /\ Take(h, 48, 4) = TagData
                 /\ Len(h) = 56
            ELSE /\ Take(h, 36, 4) = TagData
                 /\ Len(h) = 44

C9_Witness ==
    /\ pc = "exported"
    /\ export_result.status = "Ok"
    /\ pcm[1].parameters.sample_type.tag = "Float"
    /\ frames_len(pcm[1].frames) = <<2>>
    /\ Take(HeaderOf(writer), 36, 4) = TagFact

\* ------------------------------------------------------- C10
\* C10 (as stated): when import gets to frame decoding with a variant other
\* than Unsigned8bits or Signed16bits and a data size > 0, or export gets to
\* the payload write with a sample of another variant, the call returns the
\* UnimplementedSampleRepresentation error.
C10_UnimplementedIsError ==
    /\ (/\ pc = "imported"
        /\ ReaderFormat = 1
        /\ ReaderBits = 32
        /\ ReaderChannels >= 1
        /\ ReaderDataSize # <<>>
        /\ Len(ReaderDataSize) <= 3
        /\ Has(reader, 44, LEToNat(ReaderDataSize))) =>
          /\ import_result.status = "Err"
          /\ import_result.kind = "UnimplementedSampleRepresentation"
    /\ (/\ pc = "exported"
        /\ Len(HeaderOf(writer)) >= 44
        /\ export_result.kind # "TooManyFrames"
        /\ \E i \in 1..Len(pcm[1].frames) :
             \E j \in 1..Len(pcm[1].frames[i].samples) :
                pcm[1].frames[i].samples[j].tag
                    \notin {"Unsigned8bits", "Signed16bits"}) =>
          /\ export_result.status = "Err"
          /\ export_result.kind = "UnimplementedSampleRepresentation"

\* ------------------------------------------------------- C11
\* C11 (as stated): on a stream with valid tags and a header the resolver
\* accepts, a data size of 0 makes import return Ok with a PCM of zero frames
\* that has the header's sample rate, channel count and resolved variant, for
\* every channel count.
C11_ZeroSize ==
    (/\ pc = "imported"
     /\ ResolverTable(ReaderFormat, ReaderBits).status = "Ok"
     /\ ReaderDataSize = <<>>) =>
        /\ import_result.status = "Ok"
        /\ import_result.val[1].frames = <<>>
        /\ import_result.val[1].parameters.sample_rate = read_le_to_u32(Take(reader, 24, 4))
        /\ import_result.val[1].parameters.nb_channels = ReaderChannels
        /\ import_result.val[1].parameters.sample_type =
               ResolverTable(ReaderFormat, ReaderBits).val[1]

\* ------------------------------------------------------- C12
\* C12 (as stated): when the data size S is not a multiple of bytes-per-sample
\* x channel count, import decodes the floor(S / (bytes-per-sample x channel
\* count)) whole frames, drops the partial one and returns Ok.
PartialFrame ==
    /\ pc = "imported"
    /\ ReaderFormat = 1
    /\ ReaderBits \in {8, 16}
    /\ ReaderChannels >= 1
    /\ Len(ReaderDataSize) <= 3
    /\ Has(reader, 44, LEToNat(ReaderDataSize))
    /\ LEToNat(ReaderDataSize) % ((ReaderBits \div 8) * ReaderChannels) # 0

C12_PartialFrameDropped ==
    PartialFrame =>
        /\ import_result.status = "Ok"
        /\ Len(import_result.val[1].frames) =
               LEToNat(ReaderDataSize) \div ((ReaderBits \div 8) * ReaderChannels)

\* C12 (amended): when the data size S is not a multiple of bytes-per-sample
\* x channel count (Unsigned8bits or Signed16bits, at least one channel, the S
\* bytes present), import returns the I/O error of the read that runs past
\* the buffer, inside the partial frame, and no PCM.
C12_PartialFrameIsIoError ==
    PartialFrame =>
        /\ import_result.status = "Err"
        /\ import_result.kind = "IoError"
        /\ import_result.val = <<>>
        /\ import_result.at >= 44 + ((ReaderBits \div 8) * ReaderChannels)
               * (LEToNat(ReaderDataSize) \div ((ReaderBits \div 8) * ReaderChannels))
        /\ import_result.at <= 44 + LEToNat(ReaderDataSize)

C12_Witness ==
    /\ PartialFrame
    /\ ReaderBits = 16
    /\ ReaderChannels = 1
    /\ ReaderDataSize = <<3>>
    /\ import_result.kind = "IoError"
    /\ import_result.at = 46

\* ------------------------------------------------------- C13
\* C13 (as stated): whenever export returns TooMuchData or TooManyFrames the
\* writer has received no byte.
C13_ChecksBeforeEmission ==
    (Exported /\ export_result.kind \in {"TooMuchData", "TooManyFrames"}) =>
        writer = <<>>

\* ------------------------------------------------------- C14
\* The data model: every frame has nb_channels samples, all of the variant
\* of parameters.sample_type.
DataModel(p) ==
    \A i \in 1..Len(p.frames) :
        /\ Len(p.frames[i].samples) * p.frames[i].rep = p.parameters.nb_channels
        /\ \A j \in 1..Len(p.frames[i].samples) :
            p.frames[i].samples[j].tag = p.parameters.sample_type.tag

\* The number of bytes in the runs of a writer.
RECURSIVE BytesIn(_)
BytesIn(w) ==
    IF w = <<>> THEN <<>>
    ELSE LEAdd(LEMulNat(w[1].n, Len(w[1].bytes)), BytesIn(Tail(w)))

\* C14 (as stated): for a PCM that satisfies the data model and whose export
\* succeeds, the data-size field equals frame_count x nb_channels x
\* (bits_per_sample / 8), equals frame_count x the block-align field of the
\* same header, and equals the number of payload bytes written after the data
\* header.
C14_DataSize ==
    (Exported /\ export_result.status = "Ok" /\ DataModel(pcm[1])) =>
        LET h == HeaderOf(writer)
            p == pcm[1].parameters
            data_size == read_le_to_u32(Take(h, Len(h) - 4, 4))
            block_align == read_le_to_u16(Take(h, 32, 2))
            frame_count == frames_len(pcm[1].frames)
        IN  /\ Take(h, Len(h) - 8, 4) = TagData
            /\ data_size = LEMulNat(LEMulNat(frame_count, p.nb_channels),
                                    get_binary_size(p.sample_type) \div 8)
            /\ data_size = LEMulNat(frame_count, block_align)
            /\ data_size = BytesIn(Tail(writer))

\* ------------------------------------------------------- C15
\* C15: on every stream and for every header value (channel count 0 and
\* every data size included) import_wave_file ends, with a PCM, an error or
\* an abort, and every iteration of the frame-decoding loop that does not end
\* the call moves the cursor forward, and not beyond the end of the buffer.
C15_ImportTerminates ==
    /\ <>(importing.at = "done" /\ import_result.status \in {"Ok", "Err", "Panic"})
    /\ [][(importing.at = "loop" /\ importing'.at = "loop") =>
            /\ importing'.cursor > importing.cursor
            /\ importing'.cursor <= Len(importing.data)]_vars

\* A call that ended with a PCM after two iterations of the loop or more.
C15_Witness ==
    /\ importing.at = "done"
    /\ import_result.status = "Ok"
    /\ Len(importing.frames) >= 2
    /\ importing.cursor = Len(importing.data)

====
